---- MODULE Spec2Model ----
(***************************************************************************)
(* BlockCompletionTransformer                                              *)
(* (lms/djangoapps/course_api/blocks/transformers/block_completion.py).    *)
(*                                                                         *)
(* The block structure is a rooted DAG of blocks.  transform() writes the  *)
(* transformer field `completion` on every block and then, when some       *)
(* BlockCompletion row has completion 1.0, walks the structure in          *)
(* post-order calling mark_complete(), which sets the xblock fields        *)
(* `complete` and `resume_block` and calls _complete_exam_keys() for the   *)
(* blocks of completed special exams.                                      *)
(***************************************************************************)
EXTENDS Integers, Sequences, FiniteSets

\* Number of blocks of the block structure (usage keys 1..MaxBlocks, 1 = root).
MaxBlocks == 3

\* Number of transform() calls made on one block structure.
MaxCalls == 2

\* Number of completed special exams reported by edx_proctoring.
MaxExams == 1

Blocks == 1..MaxBlocks

Root == 1

\* `latest_complete_key` when no row has completion 1.0 (None).
NoKey == 0

\* xblock.completable.XBlockCompletionMode, and "unset" for a block whose
\* completion_mode field is missing (get_xblock_field returns None).
CompletionModes == {"AGGREGATOR", "EXCLUDED", "COMPLETABLE", "unset"}

\* What BlockCompletion holds for a block of the structure: no row, or a row
\* with this completion ("0.5" stands for any value other than 1.0).  Rows are
\* keyed by the blocks of the structure: map_into_course is taken to resolve a
\* row's key to the block's usage key.
NoRow == "no row"

RowValues == {NoRow, "0.5", "1.0"}

\* str(block_key): an injective rendering of a usage key; an exam's content_id
\* is such a string.
Str(block_key) == <<"block", block_key>>

VARIABLES
    children,             \* block_structure.get_children
    completion_mode,      \* block_structure.get_xblock_field(., 'completion_mode')
    completion,           \* transformer field COMPLETION: "unset", "None" or a fraction
    complete,             \* xblock field COMPLETE: TRUE once overridden with True
    resume_block,         \* xblock field RESUME_BLOCK: TRUE once overridden with True
    completions,          \* the BlockCompletion rows read by the last call
    latest_complete_key,  \* complete_blocks.latest()[0] of the last call, or NoKey
    completed_exam_keys,  \* completed_exam_keys of the last call (content ids)
    raised,               \* the last call ended with an exception
    calls                 \* transform() calls made on this block structure

vars == <<children, completion_mode, completion, complete, resume_block,
          completions, latest_complete_key, completed_exam_keys, raised, calls>>

----------------------------------------------------------------------------
\* The block structure: every edge leads from a lower to a higher key (so that
\* MaxBlocks, ..., 1 is a post-order and 1, ..., MaxBlocks a topological order)
\* and every block but the root has a parent.
IsBlockStructure(ch) ==
    /\ \A b \in Blocks : \A c \in ch[b] : c > b
    /\ \A c \in Blocks \ {Root} : \E p \in Blocks : c \in ch[p]

Parents(b) == {p \in Blocks : b \in children[p]}

RECURSIVE DescendantsWithin(_, _)
DescendantsWithin(b, n) ==
    IF n = 0 THEN {b}
    ELSE {b} \cup UNION {DescendantsWithin(c, n - 1) : c \in children[b]}

\* b and every block reachable from b through get_children.
Descendants(b) == DescendantsWithin(b, MaxBlocks)

Ancestors(b) == {a \in Blocks : b \in Descendants(a)}

----------------------------------------------------------------------------
\* _is_block_excluded: the block's completion_mode is EXCLUDED.
_is_block_excluded(block_key) == completion_mode[block_key] = "EXCLUDED"

\* transform's helper of that name.
_is_block_an_aggregator_or_excluded(block_key) ==
    completion_mode[block_key] \in {"AGGREGATOR", "EXCLUDED"}

\* The keys of completions_dict, the rows keyed by block.
completions_dict(rows) == {b \in Blocks : rows[b] # NoRow}

\* completion_value with the test narrowed to AGGREGATOR (EXCLUDED forgotten).
completion_value_aggregator_only(block_key, rows) ==
    IF completion_mode[block_key] = "AGGREGATOR" THEN "None"
    ELSE IF block_key \in completions_dict(rows) THEN rows[block_key]
    ELSE "0.0"

\* The first loop of transform: the value set_transformer_block_field writes.
completion_value(block_key, rows) ==
    IF _is_block_an_aggregator_or_excluded(block_key) THEN "None"
    ELSE IF block_key \in completions_dict(rows) THEN rows[block_key]
    ELSE "0.0"

\* The keys of completions_dict whose completion is 1.0.
complete_keys(rows) == {b \in completions_dict(rows) : rows[b] = "1.0"}

\* _complete_exam_keys is a staticmethod whose body reads `self.COMPLETE`:
\* `self` is no parameter and no global, so evaluating the arguments of the
\* first override_xblock_field call raises NameError before anything is
\* written.  bs is the state of the pass: [complete, resume_block, raised].
_complete_exam_keys(block_key, bs) == [bs EXCEPT !.raised = TRUE]

\* mark_complete with `if` for its `elif`: an aggregator with a row of its own
\* still takes the vote of its children.
mark_complete_if_for_elif(complete_course_blocks, latest, block_key, bs, exam_keys) ==
    LET own ==
            IF block_key \in complete_course_blocks
            THEN LET c == [bs EXCEPT !.complete[block_key] = TRUE]
                 IN  IF Str(block_key) = Str(latest)
                     THEN [c EXCEPT !.resume_block[block_key] = TRUE]
                     ELSE c
            ELSE bs
        marked ==
            IF completion_mode[block_key] = "AGGREGATOR"
            THEN LET all_children_complete ==
                         \A child_key \in children[block_key] :
                             ~_is_block_excluded(child_key) => own.complete[child_key]
                     c == IF all_children_complete
                          THEN [own EXCEPT !.complete[block_key] = TRUE]
                          ELSE own
                 IN  IF \E child_key \in children[block_key] : own.resume_block[child_key]
                     THEN [c EXCEPT !.resume_block[block_key] = TRUE]
                     ELSE c
            ELSE own
    IN  IF Str(block_key) \in exam_keys
        THEN _complete_exam_keys(block_key, marked)
        ELSE marked

\* mark_complete without the comparison with latest_complete_block_key: every
\* block with a 1.0 row becomes a resume block.
mark_complete_resume_every_complete(complete_course_blocks, latest, block_key, bs, exam_keys) ==
    LET marked ==
            IF block_key \in complete_course_blocks
            THEN [bs EXCEPT !.complete[block_key] = TRUE,
                            !.resume_block[block_key] = TRUE]
            ELSE IF completion_mode[block_key] = "AGGREGATOR"
            THEN LET all_children_complete ==
                         \A child_key \in children[block_key] :
                             ~_is_block_excluded(child_key) => bs.complete[child_key]
                     c == IF all_children_complete
                          THEN [bs EXCEPT !.complete[block_key] = TRUE]
                          ELSE bs
                 IN  IF \E child_key \in children[block_key] : bs.resume_block[child_key]
                     THEN [c EXCEPT !.resume_block[block_key] = TRUE]
                     ELSE c
            ELSE bs
    IN  IF Str(block_key) \in exam_keys
        THEN _complete_exam_keys(block_key, marked)
        ELSE marked

\* mark_complete writing the vote itself, override_xblock_field(block_key,
\* COMPLETE, all_children_complete), instead of True when the vote passes.
mark_complete_writes_vote(complete_course_blocks, latest, block_key, bs, exam_keys) ==
    LET marked ==
            IF block_key \in complete_course_blocks
            THEN LET c == [bs EXCEPT !.complete[block_key] = TRUE]
                 IN  IF Str(block_key) = Str(latest)
                     THEN [c EXCEPT !.resume_block[block_key] = TRUE]
                     ELSE c
            ELSE IF completion_mode[block_key] = "AGGREGATOR"
            THEN LET all_children_complete ==
                         \A child_key \in children[block_key] :
                             ~_is_block_excluded(child_key) => bs.complete[child_key]
                     c == [bs EXCEPT !.complete[block_key] = all_children_complete]
                 IN  IF \E child_key \in children[block_key] : bs.resume_block[child_key]
                     THEN [c EXCEPT !.resume_block[block_key] = TRUE]
                     ELSE c
            ELSE bs
    IN  IF Str(block_key) \in exam_keys
        THEN _complete_exam_keys(block_key, marked)
        ELSE marked

\* mark_complete; bs is the state of the pass, [complete, resume_block, raised].
mark_complete(complete_course_blocks, latest, block_key, bs, exam_keys) ==
    LET marked ==
            IF block_key \in complete_course_blocks
            THEN LET c == [bs EXCEPT !.complete[block_key] = TRUE]
                 IN  IF Str(block_key) = Str(latest)
                     THEN [c EXCEPT !.resume_block[block_key] = TRUE]
                     ELSE c
            ELSE IF completion_mode[block_key] = "AGGREGATOR"
            THEN LET all_children_complete ==
                         \A child_key \in children[block_key] :
                             ~_is_block_excluded(child_key) => bs.complete[child_key]
                     c == IF all_children_complete
                          THEN [bs EXCEPT !.complete[block_key] = TRUE]
                          ELSE bs
                 IN  IF \E child_key \in children[block_key] : bs.resume_block[child_key]
                     THEN [c EXCEPT !.resume_block[block_key] = TRUE]
                     ELSE c
            ELSE bs
    IN  IF Str(block_key) \in exam_keys
        THEN _complete_exam_keys(block_key, marked)
        ELSE marked

\* The loop over post_order_traversal(): blocks MaxBlocks, ..., 1; an exception
\* raised by mark_complete ends it.
RECURSIVE PostOrderPass(_, _, _, _, _)
PostOrderPass(block_key, bs, complete_course_blocks, latest, exam_keys) ==
    IF block_key = 0 \/ bs.raised THEN bs
    ELSE PostOrderPass(block_key - 1,
                       mark_complete(complete_course_blocks, latest, block_key, bs, exam_keys),
                       complete_course_blocks, latest, exam_keys)

\* The loop run over topological_traversal() instead: blocks 1, ..., MaxBlocks.
RECURSIVE TopologicalPass(_, _, _, _, _)
TopologicalPass(block_key, bs, complete_course_blocks, latest, exam_keys) ==
    IF block_key > MaxBlocks \/ bs.raised THEN bs
    ELSE TopologicalPass(block_key + 1,
                         mark_complete(complete_course_blocks, latest, block_key, bs, exam_keys),
                         complete_course_blocks, latest, exam_keys)

\* CompletePass walking the blocks parents first.
CompletePassTopological(bs, rows, latest, exam_keys) ==
    IF latest # NoKey
    THEN TopologicalPass(1, bs, complete_keys(rows), latest, exam_keys)
    ELSE bs

\* CompletePass without the `if latest_complete_key` guard.
CompletePassUnguarded(bs, rows, latest, exam_keys) ==
    PostOrderPass(MaxBlocks, bs, complete_keys(rows), latest, exam_keys)

\* The second half of transform: skipped when no row has completion 1.0.
CompletePass(bs, rows, latest, exam_keys) ==
    IF latest # NoKey
    THEN PostOrderPass(MaxBlocks, bs, complete_keys(rows), latest, exam_keys)
    ELSE bs

\* The fields transform leaves, from the fields it finds.
transform_result(cpl, res, rows, latest, exam_keys) ==
    CompletePass([complete |-> cpl, resume_block |-> res, raised |-> FALSE],
                 rows, latest, exam_keys)

----------------------------------------------------------------------------
\* The content ids an exam of the course may have.
ExamKeySets == {Str(b) : b \in Blocks}

\* complete_blocks.latest()[0] if complete_blocks else None: any row with
\* completion 1.0 may be the latest (the rows' modification times are free).
LatestKeys(rows) ==
    IF complete_keys(rows) = {} THEN {NoKey} ELSE complete_keys(rows)

Init ==
    /\ children \in [Blocks -> SUBSET Blocks]
    /\ IsBlockStructure(children)
    /\ completion_mode \in [Blocks -> CompletionModes]
    /\ completion = [b \in Blocks |-> "unset"]
    /\ complete = [b \in Blocks |-> FALSE]
    /\ resume_block = [b \in Blocks |-> FALSE]
    /\ completions = [b \in Blocks |-> NoRow]
    /\ latest_complete_key = NoKey
    /\ completed_exam_keys = {}
    /\ raised = FALSE
    /\ calls = 0

\* transform, called with these rows, latest key and exam keys.
transform(rows, latest, exam_keys) ==
    \E bs \in {transform_result(complete, resume_block, rows, latest, exam_keys)} :
        /\ completion' = [b \in Blocks |-> completion_value(b, rows)]
        /\ complete' = bs.complete
        /\ resume_block' = bs.resume_block
        /\ raised' = bs.raised
        /\ completions' = rows
        /\ latest_complete_key' = latest
        /\ completed_exam_keys' = exam_keys
        /\ calls' = calls + 1
        /\ UNCHANGED <<children, completion_mode>>

transform_call ==
    \E rows \in [Blocks -> RowValues] :
        \E latest \in LatestKeys(rows) :
            \E exam_keys \in {e \in SUBSET ExamKeySets : Cardinality(e) <= MaxExams} :
                transform(rows, latest, exam_keys)

\* One call on a block structure fresh from the structure provider.
Next == calls = 0 /\ transform_call

Spec == Init /\ [][Next]_vars

\* Up to MaxCalls calls on the same block structure.
NextRepeat == calls < MaxCalls /\ transform_call

SpecRepeat == Init /\ [][NextRepeat]_vars

\* transform run again with the rows, latest key and exam keys of the last call.
transform_again ==
    /\ calls >= 1
    /\ calls < MaxCalls
    /\ transform(completions, latest_complete_key, completed_exam_keys)

\* One call on a fresh block structure, then the same call again.
NextRerun == Next \/ transform_again

SpecRerun == Init /\ [][NextRerun]_vars

----------------------------------------------------------------------------
\* Vocabulary of the properties.

\* The fields of a block structure fresh from the structure provider.
Fresh == [b \in Blocks |-> FALSE]

\* The blocks of the structure whose content id is a completed exam's.
ExamRoots == {b \in Blocks : Str(b) \in completed_exam_keys}

\* The exam roots and everything below them.
ExamSubtrees == UNION {Descendants(n) : n \in ExamRoots}

\* Every block has at most one parent.
IsTree == \A b \in Blocks : Cardinality(Parents(b)) <= 1

\* The children of n that take part in its vote.
EligibleChildren(n) == {c \in children[n] : completion_mode[c] # "EXCLUDED"}

\* What the last call leaves on a fresh block structure.
AloneOnFresh ==
    transform_result(Fresh, Fresh, completions, latest_complete_key,
                    completed_exam_keys)

\* What the last call leaves on a fresh block structure when no exam is
\* completed.
AloneWithoutExams ==
    transform_result(Fresh, Fresh, completions, latest_complete_key, {})

\* The latest block and the strict ancestors joined to it by parents that are
\* each an AGGREGATOR with no 1.0 row of its own.
RECURSIVE AggregatorChainWithin(_, _)
AggregatorChainWithin(S, n) ==
    IF n = 0 THEN S
    ELSE AggregatorChainWithin(
             S \cup {p \in Blocks : /\ completion_mode[p] = "AGGREGATOR"
                                    /\ completions[p] # "1.0"
                                    /\ children[p] \cap S # {}},
             n - 1)

AggregatorChain == AggregatorChainWithin({latest_complete_key} \cap Blocks, MaxBlocks)

----------------------------------------------------------------------------
\* C1: after a transform call every block whose key is in the completed-exam
\* set, and every descendant of it, has complete = True, whatever the rows are.
\* (Fails: with no 1.0 row the pass is skipped; with one, _complete_exam_keys
\* raises NameError.)
C1_ExamSubtreeForcedComplete ==
    calls >= 1 => \A n \in ExamRoots : \A d \in Descendants(n) : complete[d]

\* C2: after a transform call on a fresh structure an AGGREGATOR block is
\* complete iff every child that is not EXCLUDED is complete.
C2_AggregatorIffChildren ==
    calls = 1 =>
        \A n \in Blocks :
            completion_mode[n] = "AGGREGATOR" =>
                (complete[n] <=> \A c \in EligibleChildren(n) : complete[c])

\* C3: after a transform call the completion field of every block is written:
\* None for an AGGREGATOR or EXCLUDED block, else the value of the block's row
\* when it has one and 0.0 when it has none.
C3_CompletionField ==
    calls >= 1 =>
        \A b \in Blocks :
            /\ completion[b] # "unset"
            /\ completion_mode[b] \in {"AGGREGATOR", "EXCLUDED"} => completion[b] = "None"
            /\ completion_mode[b] \in {"COMPLETABLE", "unset"} =>
                   completion[b] = (IF completions[b] = NoRow THEN "0.0" ELSE completions[b])

\* C3 witness: a call that raised left 0.0 on a block with no completion_mode
\* and no row, None on an EXCLUDED block that has a row, and a row's 0.5.
C3_Witness ==
    /\ calls = 1
    /\ raised
    /\ \E a, b, c \in Blocks :
        /\ completion_mode[a] = "unset" /\ completions[a] = NoRow /\ completion[a] = "0.0"
        /\ completion_mode[b] = "EXCLUDED" /\ completions[b] = "1.0" /\ completion[b] = "None"
        /\ completion_mode[c] = "COMPLETABLE" /\ completion[c] = "0.5"

\* C4 as stated: with a 1.0 row and no completed exam, after a call on a fresh
\* structure resume_block holds exactly on the latest block and on every strict
\* ancestor of it, whatever the ancestors' mode and rows.
C4_ResumeOnEveryAncestor ==
    (calls = 1 /\ latest_complete_key # NoKey /\ completed_exam_keys = {}) =>
        \A b \in Blocks : resume_block[b] <=> b \in Ancestors(latest_complete_key)

\* C4 amended: with a 1.0 row and no completed exam, after a call on a fresh
\* structure resume_block holds exactly on the latest block and on the strict
\* ancestors joined to it by a chain of parents that are each an AGGREGATOR
\* with no 1.0 row of its own.
C4_ResumeAlongAggregatorChain ==
    (calls = 1 /\ latest_complete_key # NoKey /\ completed_exam_keys = {}) =>
        \A b \in Blocks : resume_block[b] <=> b \in AggregatorChain

\* C4 witness: the latest block has an AGGREGATOR parent that is flagged and,
\* above it, an ancestor that is not an AGGREGATOR and is not flagged.
C4_Witness ==
    /\ calls = 1
    /\ latest_complete_key # NoKey
    /\ completed_exam_keys = {}
    /\ resume_block[latest_complete_key]
    /\ \E p, a \in Ancestors(latest_complete_key) \ {latest_complete_key} :
        /\ latest_complete_key \in children[p]
        /\ resume_block[p]
        /\ p \in children[a]
        /\ completion_mode[a] # "AGGREGATOR"
        /\ ~resume_block[a]

\* C5: when no row has completion 1.0 a call does not fail, overrides complete
\* and resume_block on no block and still writes completion on every block.
C5_NoCompleteRowSkipsPass ==
    (calls = 1 /\ complete_keys(completions) = {}) =>
        /\ ~raised
        /\ \A b \in Blocks : ~complete[b] /\ ~resume_block[b] /\ completion[b] # "unset"

\* C5 witness: no 1.0 row, yet a completed exam in the structure, a childless
\* AGGREGATOR (which the pass would mark complete) and a 0.5 row.
C5_Witness ==
    /\ calls = 1
    /\ complete_keys(completions) = {}
    /\ ExamRoots # {}
    /\ \E a, b \in Blocks :
        /\ completion_mode[a] = "AGGREGATOR" /\ children[a] = {}
        /\ completion[b] = "0.5"

\* C6: running transform again with the same rows, latest key and exam keys
\* leaves completion, complete and resume_block of every block as they were.
C6_Idempotent ==
    [][calls >= 1 =>
           /\ completion' = completion
           /\ complete' = complete
           /\ resume_block' = resume_block]_vars

\* C6 witness: the second run has happened on a structure in which a block has
\* two parents, with an AGGREGATOR complete by its children's vote and the
\* resume flag carried up to the root.
C6_Witness ==
    /\ calls = 2
    /\ \E b \in Blocks : Cardinality(Parents(b)) >= 2
    /\ \E n \in Blocks :
        /\ completion_mode[n] = "AGGREGATOR"
        /\ completions[n] = NoRow
        /\ children[n] # {}
        /\ complete[n]
    /\ resume_block[Root]
    /\ latest_complete_key # Root

\* C7 as stated: after any sequence of calls the three fields of every block
\* equal those the last call alone leaves on a fresh structure.
C7_LastCallAlone ==
    calls >= 1 =>
        /\ complete = AloneOnFresh.complete
        /\ resume_block = AloneOnFresh.resume_block
        /\ \A b \in Blocks : completion[b] = completion_value(b, completions)

\* C7 amended, the state part: completion equals what the last call alone
\* writes; complete and resume_block hold at least where the last call alone
\* sets them.
C7_AtLeastLastCall ==
    calls >= 1 =>
        \A b \in Blocks :
            /\ completion[b] = completion_value(b, completions)
            /\ AloneOnFresh.complete[b] => complete[b]
            /\ AloneOnFresh.resume_block[b] => resume_block[b]

\* C7 amended, the step part: a call never takes back a complete or
\* resume_block that an earlier call set.
C7_NeverRetracted ==
    \A b \in Blocks :
        /\ complete[b] => complete'[b]
        /\ resume_block[b] => resume_block'[b]

\* C7 amended: after any sequence of calls completion is that of the last call
\* alone, while complete and resume_block are only ever added to: they hold
\* wherever the last call alone sets them and wherever an earlier call set them.
C7_FieldsAccumulate == []C7_AtLeastLastCall /\ [][C7_NeverRetracted]_vars

\* C7 witness: after a second call a complete and a resume_block stand that the
\* last call alone does not set.
C7_Witness ==
    /\ calls = 2
    /\ \E b, c \in Blocks :
        /\ complete[b] /\ ~AloneOnFresh.complete[b]
        /\ resume_block[c] /\ ~AloneOnFresh.resume_block[c]

\* C8: complete of every block after a call equals the value of the bottom-up
\* pass run with no completed exam, then forced True on the exam roots and
\* their descendants.
C8_OverrideAsSeparatePass ==
    calls = 1 =>
        \A b \in Blocks :
            complete[b] <=> (AloneWithoutExams.complete[b] \/ b \in ExamSubtrees)

\* C9: in a structure where every block has at most one parent, after a call on
\* a fresh structure every block with resume_block is the latest block or an
\* ancestor of it, and no two children of one parent both have resume_block.
C9_ResumeSingleChain ==
    (calls = 1 /\ IsTree) =>
        /\ \A b \in Blocks :
               resume_block[b] =>
                   /\ latest_complete_key # NoKey
                   /\ b \in Ancestors(latest_complete_key)
        /\ \A p \in Blocks : \A c1, c2 \in children[p] :
               (resume_block[c1] /\ resume_block[c2]) => c1 = c2

\* C9 witness: two siblings both have a 1.0 row; the latest one and their
\* parent are flagged, the other sibling is not.
C9_Witness ==
    /\ calls = 1
    /\ IsTree
    /\ \E p \in Blocks : \E c1, c2 \in children[p] :
        /\ c1 # c2
        /\ completions[c1] = "1.0" /\ completions[c2] = "1.0"
        /\ latest_complete_key = c1
        /\ resume_block[c1] /\ resume_block[p] /\ ~resume_block[c2]

\* C10: completion and resume_block of every block after a call equal those
\* after the same call with an empty completed-exam set.
C10_OverrideOnlyComplete ==
    calls = 1 =>
        \A b \in Blocks :
            /\ completion[b] = completion_value(b, completions)
            /\ resume_block[b] <=> AloneWithoutExams.resume_block[b]

====
